---- MODULE Spec2Model ----
(***************************************************************************)
(* Model of fs-spec.js (fs.mcp.js): six filesystem tools (ls, readFile,    *)
(* writeFile, mkdir, rename, rm) confined to ROOT by safe().               *)
(*                                                                         *)
(* Representation.                                                         *)
(*   - A path string is a sequence of one-character strings, so that      *)
(*     String.prototype.startsWith and path.resolve work on characters.   *)
(*   - A data string is a sequence of UTF-16 code units (integers), a     *)
(*     Buffer is a sequence of bytes (integers 0..255).                    *)
(*   - The filesystem is a function from the absolute paths that exist to *)
(*     their nodes.  Timestamps (mtimeMs) are not modelled.                *)
(***************************************************************************)
EXTENDS Integers, Sequences, FiniteSets, TLC

VARIABLES fs, calls, last

vars == <<fs, calls, last>>

(***************************************************************************)
(* Bounds of the model.                                                    *)
(***************************************************************************)
\* longest relative path, in segments, handed to safe() in SpecSafe
MaxSegs == 3
\* largest file content, in bytes, an append may produce
MaxContentLen == 2
\* longest data string, in code units, drawn in SpecRW
MaxDataLen == 2

(***************************************************************************)
(* Path strings: node:path (POSIX) on character sequences.                 *)
(***************************************************************************)
Sep == "/"

\* const ROOT = path.resolve(process.env.FS_ROOT ?? process.cwd()) : "/p"
ROOT == <<"/", "p">>

StartsWith(s, prefix) ==
    /\ Len(s) >= Len(prefix)
    /\ SubSeq(s, 1, Len(prefix)) = prefix

RECURSIVE Split(_)
\* s.split("/"): the segments of s, empty ones included
Split(s) ==
    IF \A i \in 1..Len(s) : s[i] # Sep
    THEN <<s>>
    ELSE LET i == CHOOSE k \in 1..Len(s) :
                      s[k] = Sep /\ \A j \in 1..(k-1) : s[j] # Sep
         IN <<SubSeq(s, 1, i-1)>> \o Split(SubSeq(s, i+1, Len(s)))

RECURSIVE NormalizeSegs(_, _)
\* normalizeString of node:path for an absolute path: "" and "." are
\* dropped, ".." removes the segment before it and stays at "/" at the top
NormalizeSegs(segs, acc) ==
    IF segs = <<>> THEN acc
    ELSE LET h == Head(segs) IN
         IF h = <<>> \/ h = <<".">> THEN NormalizeSegs(Tail(segs), acc)
         ELSE IF h = <<".", ".">>
              THEN NormalizeSegs(Tail(segs),
                       IF acc = <<>> THEN acc ELSE SubSeq(acc, 1, Len(acc)-1))
              ELSE NormalizeSegs(Tail(segs), Append(acc, h))

RECURSIVE JoinSegs(_)
JoinSegs(segs) ==
    IF segs = <<>> THEN <<>> ELSE <<Sep>> \o Head(segs) \o JoinSegs(Tail(segs))

\* the absolute path string of a sequence of segments
JoinAbs(segs) == IF segs = <<>> THEN <<Sep>> ELSE JoinSegs(segs)

IsAbsolute(p) == p # <<>> /\ p[1] = Sep

\* path.resolve(root, rel): an absolute rel replaces root
Resolve(root, rel) ==
    LET full == IF IsAbsolute(rel) THEN rel ELSE root \o <<Sep>> \o rel
    IN JoinAbs(NormalizeSegs(Split(full), <<>>))

\* the index of the last separator of a normalized absolute path
LastSep(abs) == CHOOSE i \in 1..Len(abs) :
                    abs[i] = Sep /\ \A j \in (i+1)..Len(abs) : abs[j] # Sep

\* path.dirname of a normalized absolute path
Dirname(abs) ==
    IF LastSep(abs) = 1 THEN <<Sep>> ELSE SubSeq(abs, 1, LastSep(abs) - 1)

\* path.basename of a normalized absolute path
Basename(abs) == SubSeq(abs, LastSep(abs) + 1, Len(abs))

\* path.join(abs, n) for a normalized absolute abs and an entry name n
PathJoin(abs, n) == IF abs = <<Sep>> THEN abs \o n ELSE abs \o <<Sep>> \o n

(***************************************************************************)
(* safe(rel)                                                               *)
(***************************************************************************)
PathEscapeError == "Path escapes project root"

Thrown(e)   == [threw |-> TRUE,  error |-> e, abs |-> <<>>]
Returned(p) == [threw |-> FALSE, error |-> "", abs |-> p]

\* the check of the source: abs.startsWith(ROOT)
RootPrefix(abs) == StartsWith(abs, ROOT)

safe(rel) ==
    LET abs == Resolve(ROOT, rel) IN
    IF ~RootPrefix(abs) THEN Thrown(PathEscapeError) ELSE Returned(abs)

(***************************************************************************)
(* Buffers: Buffer.from(data, encoding) and buf.toString(encoding).        *)
(* Code units and bytes are integers:  97 is "a", 55357 (0xD83D) and       *)
(* 56832 (0xDE00) are a high and a low surrogate, 65533 is U+FFFD.         *)
(***************************************************************************)
IsHighSurrogate(u) == u >= 55296 /\ u <= 56319
IsLowSurrogate(u)  == u >= 56320 /\ u <= 57343

\* the UTF-8 bytes of one code point
EncodeCodePoint(cp) ==
    IF cp < 128 THEN <<cp>>
    ELSE IF cp < 2048 THEN <<192 + (cp \div 64), 128 + (cp % 64)>>
    ELSE IF cp < 65536
         THEN <<224 + (cp \div 4096), 128 + ((cp \div 64) % 64), 128 + (cp % 64)>>
         ELSE <<240 + (cp \div 262144), 128 + ((cp \div 4096) % 64),
                128 + ((cp \div 64) % 64), 128 + (cp % 64)>>

RECURSIVE Utf8Encode(_)
\* Buffer.from(data, 'utf8'): a surrogate pair is one code point, an
\* unpaired surrogate is written as U+FFFD (EF BF BD)
Utf8Encode(s) ==
    IF s = <<>> THEN <<>>
    ELSE LET u == Head(s) IN
         IF IsHighSurrogate(u) /\ Len(s) >= 2 /\ IsLowSurrogate(s[2])
         THEN EncodeCodePoint(65536 + (u - 55296) * 1024 + (s[2] - 56320))
                  \o Utf8Encode(Tail(Tail(s)))
         ELSE IF IsHighSurrogate(u) \/ IsLowSurrogate(u)
              THEN <<239, 191, 189>> \o Utf8Encode(Tail(s))
              ELSE EncodeCodePoint(u) \o Utf8Encode(Tail(s))

IsCont(b) == b >= 128 /\ b <= 191

\* the code units of one code point
CodeUnits(cp) ==
    IF cp < 65536 THEN <<cp>>
    ELSE <<55296 + ((cp - 65536) \div 1024), 56320 + ((cp - 65536) % 1024)>>

\* the bytes a lead byte b1 accepts as its second byte
SecondOk(b1, b2) ==
    IF b1 = 224 THEN b2 >= 160 /\ b2 <= 191
    ELSE IF b1 = 237 THEN b2 >= 128 /\ b2 <= 159
    ELSE IF b1 = 240 THEN b2 >= 144 /\ b2 <= 191
    ELSE IF b1 = 244 THEN b2 >= 128 /\ b2 <= 143
    ELSE IsCont(b2)

RECURSIVE Utf8Decode(_)
\* buf.toString('utf8'): every maximal ill-formed subsequence becomes U+FFFD
Utf8Decode(b) ==
    IF b = <<>> THEN <<>>
    ELSE LET b1 == b[1]
             n  == Len(b)
             rest(k) == Utf8Decode(SubSeq(b, k + 1, n))
         IN
         IF b1 < 128 THEN <<b1>> \o rest(1)
         ELSE IF b1 >= 194 /\ b1 <= 223
         THEN IF n >= 2 /\ IsCont(b[2])
              THEN <<(b1 - 192) * 64 + (b[2] - 128)>> \o rest(2)
              ELSE <<65533>> \o rest(1)
         ELSE IF b1 >= 224 /\ b1 <= 239
         THEN IF ~(n >= 2 /\ SecondOk(b1, b[2])) THEN <<65533>> \o rest(1)
              ELSE IF ~(n >= 3 /\ IsCont(b[3])) THEN <<65533>> \o rest(2)
              ELSE <<(b1 - 224) * 4096 + (b[2] - 128) * 64 + (b[3] - 128)>>
                       \o rest(3)
         ELSE IF b1 >= 240 /\ b1 <= 244
         THEN IF ~(n >= 2 /\ SecondOk(b1, b[2])) THEN <<65533>> \o rest(1)
              ELSE IF ~(n >= 3 /\ IsCont(b[3])) THEN <<65533>> \o rest(2)
              ELSE IF ~(n >= 4 /\ IsCont(b[4])) THEN <<65533>> \o rest(3)
              ELSE CodeUnits((b1 - 240) * 262144 + (b[2] - 128) * 4096
                                + (b[3] - 128) * 64 + (b[4] - 128)) \o rest(4)
         ELSE <<65533>> \o rest(1)

\* unbase64(c): the sextet of a character, -1 for a character that has none.
\* "-" and "_" (base64url) are accepted beside "+" and "/".
Unbase64(c) ==
    IF c >= 65 /\ c <= 90 THEN c - 65
    ELSE IF c >= 97 /\ c <= 122 THEN c - 71
    ELSE IF c >= 48 /\ c <= 57 THEN c + 4
    ELSE IF c = 43 \/ c = 45 THEN 62
    ELSE IF c = 47 \/ c = 95 THEN 63
    ELSE -1

RECURSIVE Sextets(_)
\* the sextets of a base64 string: decoding stops at "=" (61), any other
\* character outside the alphabet is skipped
Sextets(s) ==
    IF s = <<>> \/ Head(s) = 61 THEN <<>>
    ELSE IF Unbase64(Head(s)) < 0 THEN Sextets(Tail(s))
    ELSE <<Unbase64(Head(s))>> \o Sextets(Tail(s))

RECURSIVE SextetsToBytes(_)
SextetsToBytes(x) ==
    IF Len(x) < 2 THEN <<>>
    ELSE IF Len(x) = 2 THEN <<x[1] * 4 + (x[2] \div 16)>>
    ELSE IF Len(x) = 3
         THEN <<x[1] * 4 + (x[2] \div 16), (x[2] % 16) * 16 + (x[3] \div 4)>>
         ELSE <<x[1] * 4 + (x[2] \div 16), (x[2] % 16) * 16 + (x[3] \div 4),
                (x[3] % 4) * 64 + x[4]>> \o SextetsToBytes(SubSeq(x, 5, Len(x)))

\* Buffer.from(data, 'base64')
Base64Decode(s) == SextetsToBytes(Sextets(s))

\* the character of a sextet in the standard alphabet
Base64Char(v) ==
    IF v < 26 THEN v + 65
    ELSE IF v < 52 THEN v + 71
    ELSE IF v < 62 THEN v - 4
    ELSE IF v = 62 THEN 43 ELSE 47

RECURSIVE Base64Encode(_)
\* buf.toString('base64'): standard alphabet, padded with "=" (61)
Base64Encode(b) ==
    IF b = <<>> THEN <<>>
    ELSE IF Len(b) = 1
         THEN <<Base64Char(b[1] \div 4), Base64Char((b[1] % 4) * 16), 61, 61>>
    ELSE IF Len(b) = 2
         THEN <<Base64Char(b[1] \div 4),
                Base64Char((b[1] % 4) * 16 + (b[2] \div 16)),
                Base64Char((b[2] % 16) * 4), 61>>
         ELSE <<Base64Char(b[1] \div 4),
                Base64Char((b[1] % 4) * 16 + (b[2] \div 16)),
                Base64Char((b[2] % 16) * 4 + (b[3] \div 64)),
                Base64Char(b[3] % 64)>> \o Base64Encode(SubSeq(b, 4, Len(b)))

\* encoding === 'utf8' ? Buffer.from(data, 'utf8') : Buffer.from(data, 'base64')
BufferFrom(data, encoding) ==
    IF encoding = "utf8" THEN Utf8Encode(data) ELSE Base64Decode(data)

\* mutant of BufferToString: the bytes read as one code unit each ('latin1')
BufferToStringLatin1(buf, encoding) ==
    IF encoding = "utf8" THEN buf ELSE Base64Encode(buf)

\* encoding === 'utf8' ? buf.toString('utf8') : buf.toString('base64')
BufferToString(buf, encoding) ==
    IF encoding = "utf8" THEN Utf8Decode(buf) ELSE Base64Encode(buf)

(***************************************************************************)
(* The filesystem node:fs acts on (POSIX semantics).  f is a function from *)
(* the absolute paths that exist to [type, content].  A filesystem call    *)
(* returns [err, fs, value]: err = "" and the new tree, or an error code   *)
(* and the tree unchanged.                                                 *)
(***************************************************************************)
DirNode       == [type |-> "dir",  content |-> <<>>]
FileNode(buf) == [type |-> "file", content |-> buf]

Exists(f, p) == p \in DOMAIN f
IsDir(f, p)  == Exists(f, p) /\ f[p].type = "dir"
IsFile(f, p) == Exists(f, p) /\ f[p].type = "file"

\* q lies strictly below p
IsUnder(q, p) ==
    IF p = <<Sep>> THEN q # p ELSE StartsWith(q, p \o <<Sep>>)

Children(f, p)    == {q \in DOMAIN f : q # p /\ Dirname(q) = p}
Descendants(f, p) == {q \in DOMAIN f : IsUnder(q, p)}

FsOk(f, v)    == [err |-> "", fs |-> f, value |-> v]
FsFail(f, e)  == [err |-> e,  fs |-> f, value |-> <<>>]

\* the error of walking to p: a component that is not a directory, or a
\* component that does not exist; "" when p exists
WalkErr(f, p) ==
    IF \E q \in DOMAIN f : IsUnder(p, q) /\ f[q].type # "dir" THEN "ENOTDIR"
    ELSE IF ~Exists(f, p) THEN "ENOENT"
    ELSE ""

\* f without p and everything below it
RemoveTree(f, p) ==
    [q \in DOMAIN f \ ({p} \cup Descendants(f, p)) |-> f[q]]

\* f with p bound to node n
Put(f, p, n) == [q \in DOMAIN f \cup {p} |-> IF q = p THEN n ELSE f[q]]

\* fs.stat(p)
FsStat(f, p) ==
    IF WalkErr(f, p) # "" THEN FsFail(f, WalkErr(f, p))
    ELSE FsOk(f, [type |-> f[p].type, size |-> Len(f[p].content)])

\* fs.readdir(p): the set of entry names; the caller picks the order
FsReaddir(f, p) ==
    IF WalkErr(f, p) # "" THEN FsFail(f, WalkErr(f, p))
    ELSE IF ~IsDir(f, p) THEN FsFail(f, "ENOTDIR")
    ELSE FsOk(f, {Basename(q) : q \in Children(f, p)})

\* fs.readFile(p)
FsReadFile(f, p) ==
    IF WalkErr(f, p) # "" THEN FsFail(f, WalkErr(f, p))
    ELSE IF IsDir(f, p) THEN FsFail(f, "EISDIR")
    ELSE FsOk(f, f[p].content)

\* fs.writeFile(p, buf, { flag }): flag "w" truncates, flag "a" appends;
\* both create the file
FsWriteFile(f, p, buf, flag) ==
    IF WalkErr(f, Dirname(p)) # "" THEN FsFail(f, WalkErr(f, Dirname(p)))
    ELSE IF ~IsDir(f, Dirname(p)) THEN FsFail(f, "ENOTDIR")
    ELSE IF IsDir(f, p) THEN FsFail(f, "EISDIR")
    ELSE LET old == IF Exists(f, p) /\ flag = "a" THEN f[p].content ELSE <<>>
         IN FsOk(Put(f, p, FileNode(old \o buf)), <<>>)

\* the ancestors of p, p included, "/" excluded
SelfAndAncestors(p) ==
    {p} \cup {SubSeq(p, 1, i - 1) : i \in {k \in 2..Len(p) : p[k] = Sep}}

\* fs.mkdir(p, { recursive })
FsMkdir(f, p, recursive) ==
    IF recursive
    THEN IF \E q \in DOMAIN f : IsUnder(p, q) /\ f[q].type # "dir"
         THEN FsFail(f, "ENOTDIR")
         ELSE IF Exists(f, p) /\ ~IsDir(f, p) THEN FsFail(f, "EEXIST")
         ELSE FsOk([q \in DOMAIN f \cup SelfAndAncestors(p) |->
                       IF q \in DOMAIN f THEN f[q] ELSE DirNode], <<>>)
    ELSE IF WalkErr(f, Dirname(p)) # "" THEN FsFail(f, WalkErr(f, Dirname(p)))
         ELSE IF ~IsDir(f, Dirname(p)) THEN FsFail(f, "ENOTDIR")
         ELSE IF Exists(f, p) THEN FsFail(f, "EEXIST")
         ELSE FsOk(Put(f, p, DirNode), <<>>)

\* the path q, at or below from, after from has become to
Rebase(q, from, to) == to \o SubSeq(q, Len(from) + 1, Len(q))

\* fs.rename(from, to): rename(2)
FsRename(f, from, to) ==
    IF WalkErr(f, from) # "" THEN FsFail(f, WalkErr(f, from))
    ELSE IF WalkErr(f, Dirname(to)) # "" THEN FsFail(f, WalkErr(f, Dirname(to)))
    ELSE IF ~IsDir(f, Dirname(to)) THEN FsFail(f, "ENOTDIR")
    ELSE IF from = to THEN FsOk(f, <<>>)
    ELSE IF IsUnder(to, from) THEN FsFail(f, "EINVAL")
    ELSE IF IsDir(f, from) /\ Exists(f, to) /\ ~IsDir(f, to)
         THEN FsFail(f, "ENOTDIR")
    ELSE IF ~IsDir(f, from) /\ IsDir(f, to) THEN FsFail(f, "EISDIR")
    ELSE IF IsDir(f, to) /\ Children(f, to) # {} THEN FsFail(f, "ENOTEMPTY")
    ELSE LET moved == {from} \cup Descendants(f, from)
             kept  == DOMAIN f \ (moved \cup {to})
         IN FsOk([q \in kept \cup {Rebase(m, from, to) : m \in moved} |->
                     IF q \in kept THEN f[q]
                     ELSE f[CHOOSE m \in moved : Rebase(m, from, to) = q]],
                 <<>>)

\* fs.rm(p, { recursive, force: true }): a missing p is no error (force); a
\* directory is removed only with recursive, else ERR_FS_EISDIR
FsRm(f, p, recursive) ==
    IF WalkErr(f, p) = "ENOENT" THEN FsOk(f, <<>>)
    ELSE IF WalkErr(f, p) # "" THEN FsFail(f, WalkErr(f, p))
    ELSE IF IsDir(f, p) /\ ~recursive THEN FsFail(f, "ERR_FS_EISDIR")
    ELSE FsOk(RemoveTree(f, p), <<>>)

\* fs.unlink(p)
FsUnlink(f, p) ==
    IF WalkErr(f, p) # "" THEN FsFail(f, WalkErr(f, p))
    ELSE IF IsDir(f, p) THEN FsFail(f, "EISDIR")
    ELSE FsOk(RemoveTree(f, p), <<>>)

(***************************************************************************)
(* Calls.  A tool's execute is an async function: it ends fulfilled with   *)
(* the envelope asResult built, or rejected with the error that was thrown *)
(* (safe) or that the awaited filesystem call failed with.                 *)
(***************************************************************************)
\* the string 'ok'
OkText == <<111, 107>>

\* asResult(x): a string is passed through, anything else is serialized
\* (JSON.stringify, kept here as the value under the tag "json")
asResult(x) ==
    [content |-> <<[type |-> "text",
                    text |-> IF x.typeof = "string" THEN x.val
                             ELSE <<"json", x.val>>]>>]

StringValue(s) == [typeof |-> "string", val |-> s]
ObjectValue(v) == [typeof |-> "object", val |-> v]

Pending      == [state |-> "pending",   value |-> <<>>, reason |-> ""]
Fulfilled(v) == [state |-> "fulfilled", value |-> v,    reason |-> ""]
\* mutant of Rejected: the error caught and returned as an envelope
RejectedCaught(e) ==
    Fulfilled([content |-> <<[type |-> "text", text |-> e]>>, isError |-> TRUE])

\* an error leaves execute as the rejection of its promise: no tool has a
\* try/catch
Rejected(e)  == [state |-> "rejected",  value |-> <<>>, reason |-> e]

\* a destructured parameter with its default: { name = default }
Arg(args, name, default) ==
    IF name \in DOMAIN args THEN args[name] ELSE default

\* what the last step of a call did: the tool, its arguments, the outcome of
\* the call (pending while the call still awaits), and for ls the names
\* fs.readdir returned
Step(op, args, outcome, entries) ==
    [op |-> op, args |-> args, outcome |-> outcome, entries |-> entries]

Idle == [pc |-> "idle"]

\* the slots of the calls that are awaiting between two filesystem calls
Slots == {1, 2}

\* the orders fs.readdir may return the names S in
Orders(S) ==
    {o \in [1..Cardinality(S) -> S] : \A i, j \in DOMAIN o : o[i] = o[j] => i = j}

\* statEntry(abs): a descriptor, or the error of fs.stat (and then no
\* descriptor: the entry of type "error" is never returned)
statEntry(f, abs) ==
    LET s == FsStat(f, abs) IN
    IF s.err # ""
    THEN [err |-> s.err,
          entry |-> [name |-> Basename(abs), type |-> "error", size |-> 0]]
    ELSE [err |-> "",
          entry |-> [name |-> Basename(abs),
                     type |-> IF s.value.type = "file" THEN "file"
                              ELSE IF s.value.type = "dir" THEN "dir"
                              ELSE "other",
                     size |-> s.value.size]]

NotYet == [name |-> <<>>, type |-> "pending", size |-> 0]

\* mutant of PromiseAll: Promise.allSettled, a failed stat leaves its entry
\* empty and the listing is returned all the same
PromiseAllSettled(stats, failure) ==
    IF \E i \in DOMAIN stats : stats[i] = NotYet THEN Pending
    ELSE Fulfilled(asResult(ObjectValue(stats)))

\* Promise.all over the stats: rejected as soon as one stat is, fulfilled
\* with all the descriptors in the order of the names once none is pending
PromiseAll(stats, failure) ==
    IF failure # "" THEN Rejected(failure)
    ELSE IF \E i \in DOMAIN stats : stats[i] = NotYet THEN Pending
    ELSE Fulfilled(asResult(ObjectValue(stats)))

\* ls, up to its first await on the stats: safe, fs.readdir, the stats issued
LsCall(c, args) ==
    LET rel == Arg(args, "path", <<".">>)
        r   == safe(rel)
        rd  == FsReaddir(fs, r.abs)
    IN /\ calls[c] = Idle
       /\ fs' = fs
       /\ IF r.threw
          THEN /\ last' = Step("ls", args, Rejected(r.error), <<>>)
               /\ calls' = calls
          ELSE IF rd.err # ""
          THEN /\ last' = Step("ls", args, Rejected(rd.err), <<>>)
               /\ calls' = calls
          ELSE \E entries \in Orders(rd.value) :
                 LET stats == [i \in DOMAIN entries |-> NotYet]
                     out   == PromiseAll(stats, "")
                 IN /\ last' = Step("ls", args, out, entries)
                    /\ calls' = IF out = Pending
                                THEN [calls EXCEPT ![c] =
                                        [pc |-> "ls", args |-> args,
                                         abs |-> r.abs, entries |-> entries,
                                         stats |-> stats]]
                                ELSE calls

\* one of the stats ls issued completes
LsStat(c) ==
    /\ calls[c].pc = "ls"
    /\ \E i \in DOMAIN calls[c].stats :
         /\ calls[c].stats[i] = NotYet
         /\ LET k     == calls[c]
                e     == statEntry(fs, PathJoin(k.abs, k.entries[i]))
                stats == [k.stats EXCEPT ![i] = e.entry]
                out   == PromiseAll(stats, e.err)
            IN /\ last' = Step("ls", k.args, out, k.entries)
               /\ calls' = [calls EXCEPT ![c] =
                              IF out = Pending THEN [k EXCEPT !.stats = stats]
                              ELSE Idle]
    /\ fs' = fs

\* readFile
ReadFile(args) ==
    LET encoding == Arg(args, "encoding", "utf8")
        r        == safe(args.path)
        rd       == FsReadFile(fs, r.abs)
    IN /\ fs' = fs
       /\ calls' = calls
       /\ last' = Step("readFile", args,
                       IF r.threw THEN Rejected(r.error)
                       ELSE IF rd.err # "" THEN Rejected(rd.err)
                       ELSE Fulfilled(asResult(StringValue(
                                BufferToString(rd.value, encoding)))),
                       <<>>)

\* mutant of WriteFlag: append is ignored
WriteFlagAlwaysW(append) == "w"

\* { flag: append ? 'a' : 'w' }
WriteFlag(append) == IF append THEN "a" ELSE "w"

\* writeFile
WriteFile(args) ==
    LET data     == Arg(args, "data", <<>>)
        encoding == Arg(args, "encoding", "utf8")
        append   == Arg(args, "append", FALSE)
        buf      == BufferFrom(data, encoding)
        r        == safe(args.path)
        w        == FsWriteFile(fs, r.abs, buf, WriteFlag(append))
    IN /\ IF r.threw \/ w.err # "" \/ ~append THEN TRUE
          ELSE Len(w.fs[r.abs].content) <= MaxContentLen
       /\ fs' = IF r.threw THEN fs ELSE w.fs
       /\ calls' = calls
       /\ last' = Step("writeFile", args,
                       IF r.threw THEN Rejected(r.error)
                       ELSE IF w.err # "" THEN Rejected(w.err)
                       ELSE Fulfilled(asResult(StringValue(OkText))),
                       <<>>)

\* mutant of MkdirRecursive: recursive defaults to false
MkdirRecursiveDefaultFalse(args) == Arg(args, "recursive", FALSE)

\* mkdir's parameters: { path: rel, recursive = true }
MkdirRecursive(args) == Arg(args, "recursive", TRUE)

\* mkdir
Mkdir(args) ==
    LET recursive == MkdirRecursive(args)
        r         == safe(args.path)
        m         == FsMkdir(fs, r.abs, recursive)
    IN /\ fs' = IF r.threw THEN fs ELSE m.fs
       /\ calls' = calls
       /\ last' = Step("mkdir", args,
                       IF r.threw THEN Rejected(r.error)
                       ELSE IF m.err # "" THEN Rejected(m.err)
                       ELSE Fulfilled(asResult(StringValue(OkText))),
                       <<>>)

\* mutant of RenamePaths: the two arguments the other way round
RenamePathsSwapped(args) == <<safe(args.to), safe(args.from)>>

\* the arguments of fs.rename(safe(from), safe(to))
RenamePaths(args) == <<safe(args.from), safe(args.to)>>

\* rename: safe(from), then safe(to), then fs.rename
Rename(args) ==
    LET rf == RenamePaths(args)[1]
        rt == RenamePaths(args)[2]
        mv == FsRename(fs, rf.abs, rt.abs)
    IN /\ fs' = IF rf.threw \/ rt.threw THEN fs ELSE mv.fs
       /\ calls' = calls
       /\ last' = Step("rename", args,
                       IF rf.threw THEN Rejected(rf.error)
                       ELSE IF rt.threw THEN Rejected(rt.error)
                       ELSE IF mv.err # "" THEN Rejected(mv.err)
                       ELSE Fulfilled(asResult(StringValue(OkText))),
                       <<>>)

\* rm, up to its second await: safe, fs.stat
RmCall(c, args) ==
    LET r == safe(args.path)
        s == FsStat(fs, r.abs)
    IN /\ calls[c] = Idle
       /\ fs' = fs
       /\ IF r.threw \/ s.err # ""
          THEN /\ last' = Step("rm", args,
                             Rejected(IF r.threw THEN r.error ELSE s.err), <<>>)
               /\ calls' = calls
          ELSE /\ last' = Step("rm", args, Pending, <<>>)
               /\ calls' = [calls EXCEPT ![c] =
                              [pc |-> "rm", args |-> args, abs |-> r.abs,
                               isDirectory |-> s.value.type = "dir"]]

\* rm, from its second await: fs.rm of a directory, fs.unlink otherwise
RmRemove(c) ==
    /\ calls[c].pc = "rm"
    /\ LET k  == calls[c]
           rm == IF k.isDirectory
                 THEN FsRm(fs, k.abs, Arg(k.args, "recursive", FALSE))
                 ELSE FsUnlink(fs, k.abs)
       IN /\ fs' = rm.fs
          /\ last' = Step("rm", k.args,
                          IF rm.err # "" THEN Rejected(rm.err)
                          ELSE Fulfilled(asResult(StringValue(OkText))),
                          <<>>)
    /\ calls' = [calls EXCEPT ![c] = Idle]

(***************************************************************************)
(* The callers' inputs.                                                    *)
(***************************************************************************)
RelA        == <<"a">>
RelAB       == <<"a", "/", "b">>
RelAC       == <<"a", "/", "c">>
RelC        == <<"c">>
RelF        == <<"f">>
\* /po/x: outside ROOT, in a sibling whose name begins with ROOT's name
RelSibling  == <<".", ".", "/", "p", "o", "/", "x">>
\* /q: outside ROOT
RelOutside  == <<".", ".", "/", "q">>

\* "a"
DataA  == <<97>>

NoArgs == <<>>

\* "/", ROOT = /p and its sibling /po are directories, /q is a file
InitTree ==
    [q \in {<<"/">>, ROOT, <<"/", "p", "o">>, <<"/", "q">>} |->
        IF q = <<"/", "q">> THEN FileNode(DataA) ELSE DirNode]

Init ==
    /\ fs = InitTree
    /\ calls = [c \in Slots |-> Idle]
    /\ last = Step("none", NoArgs, Pending, <<>>)

(***************************************************************************)
(* Spec: the six tools on a, a/b and the two paths outside ROOT; one call  *)
(* of ls or rm at a time is between its awaits while the others run.       *)
(***************************************************************************)
Rels == {RelA, RelAB, RelSibling, RelOutside}

LsArgs == {NoArgs} \cup {[path |-> r] : r \in Rels}

ReadArgs ==
    {[path |-> r] : r \in Rels} \cup {[path |-> RelAB, encoding |-> "base64"]}

WriteArgs == {[path |-> r, data |-> DataA] : r \in Rels}

MkdirArgs ==
    {[path |-> r] : r \in Rels}
        \cup {[path |-> r, recursive |-> FALSE] : r \in Rels}
        \cup {[path |-> r, recursive |-> TRUE] : r \in {RelA, RelAB}}

\* nothing is renamed to a/b, so that no sequence of renames deepens the tree
RenameArgs ==
    {[from |-> a, to |-> b] : a \in {RelA, RelAB}, b \in Rels \ {RelAB}}
        \cup {[from |-> RelSibling, to |-> RelA],
              [from |-> RelOutside, to |-> RelA]}

RmArgs ==
    {[path |-> r] : r \in Rels}
        \cup {[path |-> r, recursive |-> TRUE] : r \in Rels}

Next ==
    \/ \E a \in LsArgs : LsCall(1, a)
    \/ LsStat(1)
    \/ \E a \in ReadArgs : ReadFile(a)
    \/ \E a \in WriteArgs : WriteFile(a)
    \/ \E a \in MkdirArgs : Mkdir(a)
    \/ \E a \in RenameArgs : Rename(a)
    \/ \E a \in RmArgs : RmCall(1, a)
    \/ RmRemove(1)

Spec == Init /\ [][Next]_vars

(***************************************************************************)
(* SpecRename: mkdir, writeFile and rename on a, a/b, a/c and c            *)
(***************************************************************************)
RenameRels == {RelAB, RelAC, RelC}

RenamePairs ==
    {[from |-> a, to |-> b] : a, b \in {RelAB, RelAC}}
        \cup {[from |-> RelAB, to |-> RelC], [from |-> RelAC, to |-> RelC],
              [from |-> RelC, to |-> RelC],
              [from |-> RelA, to |-> RelC], [from |-> RelC, to |-> RelA]}

NextRename ==
    \/ \E r \in RenameRels : Mkdir([path |-> r])
    \/ \E r \in RenameRels \cup {RelA} : WriteFile([path |-> r, data |-> DataA])
    \/ \E a \in RenamePairs : Rename(a)

SpecRename == Init /\ [][NextRename]_vars

(***************************************************************************)
(* SpecLs: ls of a while writeFile, rename and rm change its entries; two  *)
(* calls of ls or rm may be between their awaits at once.                  *)
(***************************************************************************)
LsRels == {RelAB, RelAC}

NextLs ==
    \/ Mkdir([path |-> RelA])
    \/ \E r \in LsRels : WriteFile([path |-> r, data |-> DataA])
    \/ Rename([from |-> RelAB, to |-> RelAC])
    \/ \E c \in Slots : LsCall(c, [path |-> RelA])
    \/ \E c \in Slots : LsStat(c)
    \/ \E c \in Slots, r \in LsRels : RmCall(c, [path |-> r])
    \/ \E c \in Slots : RmRemove(c)

SpecLs == Init /\ [][NextLs]_vars

(***************************************************************************)
(* SpecRW: writeFile and readFile of f with every data string over a small *)
(* alphabet; mkdir and rm make f a directory and remove it.                *)
(***************************************************************************)
\* "a", a high surrogate (0xD83D) and a low surrogate (0xDE00)
CodeUnitAlphabet == {97, 55357, 56832}

Utf8Data == UNION {[1..n -> CodeUnitAlphabet] : n \in 0..MaxDataLen}

\* "a" and 0xFF
ByteAlphabet == {97, 255}

ByteStrings == UNION {[1..n -> ByteAlphabet] : n \in 0..MaxDataLen}

\* the base64 of every byte string; "YQ" (padding left out), "YR==" (spare
\* bits set), "_w==" (base64url) and "Y Q==" (a space)
Base64Data ==
    {Base64Encode(b) : b \in ByteStrings}
        \cup {<<89, 81>>, <<89, 82, 61, 61>>, <<95, 119, 61, 61>>,
              <<89, 32, 81, 61, 61>>}

RWWriteArgs ==
    {[path |-> RelF, data |-> d] : d \in Utf8Data}
        \cup {[path |-> RelF, data |-> d, encoding |-> "utf8", append |-> a] :
                 d \in Utf8Data, a \in BOOLEAN}
        \cup {[path |-> RelF, data |-> d, encoding |-> "base64"] :
                 d \in Base64Data}
        \cup {[path |-> RelF, data |-> d, encoding |-> "base64", append |-> a] :
                 d \in Base64Data, a \in BOOLEAN}
        \cup {[path |-> RelF], [path |-> RelAB, data |-> DataA]}

RWReadArgs ==
    {[path |-> RelF], [path |-> RelF, encoding |-> "utf8"],
     [path |-> RelF, encoding |-> "base64"], [path |-> RelAB]}

NextRW ==
    \/ \E a \in RWWriteArgs : WriteFile(a)
    \/ \E a \in RWReadArgs : ReadFile(a)
    \/ Mkdir([path |-> RelF, recursive |-> FALSE])
    \/ RmCall(1, [path |-> RelF, recursive |-> TRUE])
    \/ RmRemove(1)

SpecRW == Init /\ [][NextRW]_vars

(***************************************************************************)
(* SpecSafe: safe applied to every relative or absolute path of at most    *)
(* MaxSegs segments.                                                       *)
(***************************************************************************)
\* "..", ".", "p" (ROOT's name), "po" (a name that begins with it), "a"
SegNames == {<<".", ".">>, <<".">>, <<"p">>, <<"p", "o">>, <<"a">>}

RECURSIVE JoinRel(_)
JoinRel(segs) ==
    IF Len(segs) = 1 THEN segs[1]
    ELSE segs[1] \o <<Sep>> \o JoinRel(Tail(segs))

SafeRels ==
    LET seqs == UNION {[1..n -> SegNames] : n \in 1..MaxSegs}
    IN {JoinRel(x) : x \in seqs} \cup {<<Sep>> \o JoinRel(x) : x \in seqs}

\* safe(rel), as a call that returns the path or throws
SafeCall(rel) ==
    LET r == safe(rel) IN
    /\ last' = Step("safe", [path |-> rel],
                    IF r.threw THEN Rejected(r.error) ELSE Fulfilled(r.abs),
                    <<>>)
    /\ UNCHANGED <<fs, calls>>

NextSafe == \E rel \in SafeRels : SafeCall(rel)

SpecSafe == Init /\ [][NextSafe]_vars

(***************************************************************************)
(* The claims.                                                             *)
(***************************************************************************)
ToolNames == {"ls", "readFile", "writeFile", "mkdir", "rename", "rm"}

\* the canonical absolute path of a caller's path
AbsOf(rel) == Resolve(ROOT, rel)

\* confinement as specified: Root itself, or Root followed by the separator
Confined(abs) == abs = ROOT \/ StartsWith(abs, ROOT \o <<Sep>>)

\* the path-bearing arguments of a step
PathArgs(l) ==
    IF l.op = "rename" THEN {l.args.from, l.args.to}
    ELSE IF l.op = "ls" THEN {Arg(l.args, "path", <<".">>)}
    ELSE {l.args.path}

\* a call that ended rejected with e
RejectionOf(e) == [state |-> "rejected", value |-> <<>>, reason |-> e]

\* a call that ended fulfilled with the envelope of the text t
TextOutcome(t) ==
    [state |-> "fulfilled",
     value |-> [content |-> <<[type |-> "text", text |-> t]>>],
     reason |-> ""]

OkOutcome == TextOutcome(OkText)

\* slot c's call goes on from its await in this step
Resumed(c) == calls[c] # Idle /\ calls'[c] # calls[c]

\* C1: whenever safe(rel) returns a path, that path is Root or starts with
\* Root followed by the separator.
C1_SafeReturnsConfined ==
    (last.op = "safe" /\ last.outcome.state = "fulfilled")
        => Confined(last.outcome.value)

\* C2: a call of any tool with a path argument that canonicalizes outside
\* Root is rejected with the path-escape error and leaves the filesystem as
\* it was.
C2_EscapeRejectedUntouched ==
    [][(last'.op \in ToolNames
            /\ \E r \in PathArgs(last') : ~Confined(AbsOf(r)))
        => (last'.outcome = RejectionOf(PathEscapeError) /\ fs' = fs)]_vars

\* a string without an unpaired surrogate
RECURSIVE WellFormed(_)
WellFormed(s) ==
    IF s = <<>> THEN TRUE
    ELSE IF IsHighSurrogate(s[1])
         THEN Len(s) >= 2 /\ IsLowSurrogate(s[2]) /\ WellFormed(Tail(Tail(s)))
         ELSE ~IsLowSurrogate(s[1]) /\ WellFormed(Tail(s))

\* a character of the standard base64 alphabet: A-Z a-z 0-9 + /
InStdAlphabet(c) ==
    \/ c >= 65 /\ c <= 90
    \/ c >= 97 /\ c <= 122
    \/ c >= 48 /\ c <= 57
    \/ c = 43
    \/ c = 47

\* the base64 (RFC 4648, padded, spare bits zero) of some bytes
CanonicalBase64(d) ==
    LET n == Len(d) IN
    /\ n % 4 = 0
    /\ \A i \in 1..n : i <= n - 2 => InStdAlphabet(d[i])
    /\ n > 0 =>
         \/ InStdAlphabet(d[n-1]) /\ InStdAlphabet(d[n])
         \/ InStdAlphabet(d[n-1]) /\ d[n] = 61 /\ Unbase64(d[n-1]) % 4 = 0
         \/ d[n-1] = 61 /\ d[n] = 61 /\ Unbase64(d[n-2]) % 16 = 0

\* this step is a readFile of the path the step before wrote (append=false)
\* with the same encoding; the path is confined and its parent directory
\* exists
WriteThenRead ==
    /\ last.op = "writeFile"
    /\ last'.op = "readFile"
    /\ last'.args.path = last.args.path
    /\ ~Arg(last.args, "append", FALSE)
    /\ Arg(last'.args, "encoding", "utf8") = Arg(last.args, "encoding", "utf8")
    /\ Confined(AbsOf(last.args.path))
    /\ IsDir(fs, Dirname(AbsOf(last.args.path)))
    /\ (Arg(last.args, "encoding", "utf8") = "base64"
           => CanonicalBase64(Arg(last.args, "data", <<>>)))

\* C3 as claimed: writeFile(path, data, encoding) followed by
\* readFile(path, encoding) returns exactly data, for every string data
\* (utf8) and every base64 payload (base64).
C3_RoundTrip ==
    [][WriteThenRead
        => last'.outcome = TextOutcome(Arg(last.args, "data", <<>>))]_vars

\* C3 as amended: the same for a path that is not an existing directory and,
\* with utf8, for data without an unpaired surrogate.
C3_RoundTripWellFormed ==
    [][(/\ WriteThenRead
        /\ ~IsDir(fs, AbsOf(last.args.path))
        /\ (Arg(last.args, "encoding", "utf8") = "utf8"
               => WellFormed(Arg(last.args, "data", <<>>))))
        => last'.outcome = TextOutcome(Arg(last.args, "data", <<>>))]_vars

\* C3's witness: readFile returned the surrogate pair U+1F600 that the
\* writeFile before it stored as four bytes
C3_Witness ==
    /\ last.op = "readFile"
    /\ last.args.path = RelF
    /\ last.outcome = TextOutcome(<<55357, 56832>>)
    /\ fs[AbsOf(RelF)].content = <<240, 159, 152, 128>>

\* the error this step raises when it is a tool's first step, "" if none
RaisedAtCall(f, l) ==
    IF l.op = "rename"
    THEN LET rf == safe(l.args.from)
             rt == safe(l.args.to)
         IN IF rf.threw THEN rf.error
            ELSE IF rt.threw THEN rt.error
            ELSE FsRename(f, rf.abs, rt.abs).err
    ELSE LET r == safe(Arg(l.args, "path", <<".">>)) IN
         IF r.threw THEN r.error
         ELSE IF l.op = "ls" THEN FsReaddir(f, r.abs).err
         ELSE IF l.op = "rm" THEN FsStat(f, r.abs).err
         ELSE IF l.op = "readFile" THEN FsReadFile(f, r.abs).err
         ELSE IF l.op = "mkdir"
              THEN FsMkdir(f, r.abs, Arg(l.args, "recursive", TRUE)).err
              ELSE FsWriteFile(f, r.abs, <<>>, "w").err

\* the error the second step of rm raises, "" if none
RaisedAtRemove(f, k) ==
    IF k.isDirectory THEN FsRm(f, k.abs, Arg(k.args, "recursive", FALSE)).err
    ELSE FsUnlink(f, k.abs).err

\* the stats of ls that are still awaited
Awaited(k) == {i \in DOMAIN k.stats : k.stats[i] = NotYet}

\* the error of the stat of entry i of ls, "" if none
RaisedAtStat(f, k, i) == statEntry(f, PathJoin(k.abs, k.entries[i])).err

RemovingDir(c) ==
    /\ Resumed(c)
    /\ calls[c].pc = "rm"
    /\ ~Arg(calls[c].args, "recursive", FALSE)
    /\ IsDir(fs, calls[c].abs)

\* C5: rm(path, recursive=false) on a non-empty directory fails with
\* NotEmpty (ENOTEMPTY) and leaves the filesystem as it was.
C5_RmNonEmptyDirNotEmpty ==
    [][\A c \in Slots :
         (RemovingDir(c) /\ Children(fs, calls[c].abs) # {})
            => (last'.outcome = RejectionOf("ENOTEMPTY") /\ fs' = fs)]_vars

\* no component of abs exists as something other than a directory
NoFileOnPath(f, abs) ==
    \A q \in SelfAndAncestors(abs) : Exists(f, q) => IsDir(f, q)

\* this step and the step before it are mkdir of the same confined path, the
\* first with recursive=true
MkdirTwice ==
    /\ last.op = "mkdir"
    /\ last'.op = "mkdir"
    /\ last'.args.path = last.args.path
    /\ Arg(last.args, "recursive", TRUE)
    /\ Confined(AbsOf(last.args.path))

\* what C6 says of the two calls
MkdirTwiceResult ==
    /\ last.outcome = OkOutcome
    /\ fs' = fs
    /\ IF Arg(last'.args, "recursive", TRUE)
       THEN /\ last'.outcome = OkOutcome
            /\ \A q \in SelfAndAncestors(AbsOf(last.args.path)) : IsDir(fs', q)
       ELSE last'.outcome = RejectionOf("EEXIST")

\* C6 as claimed: for every confined path, mkdir(path, recursive=true) twice
\* returns 'ok' both times and the second call changes nothing; a second
\* call with recursive=false fails with AlreadyExists and changes nothing.
C6_MkdirTwice == [][MkdirTwice => MkdirTwiceResult]_vars

\* C6 as amended: the same for a confined path no component of which exists
\* as a non-directory.
C6_MkdirTwiceOnDirectoryPath ==
    [][(MkdirTwice /\ NoFileOnPath(fs, AbsOf(last.args.path)))
        => MkdirTwiceResult]_vars

\* C6's witness: mkdir(a/b, recursive=false) failed with EEXIST on the
\* directory a/b that mkdir had created
C6_Witness ==
    /\ last.op = "mkdir"
    /\ last.args = [path |-> RelAB, recursive |-> FALSE]
    /\ last.outcome = RejectionOf("EEXIST")
    /\ IsDir(fs, AbsOf(RelAB))

\* C7: rm(path, recursive=false) on an empty directory returns 'ok' and the
\* directory no longer exists.
C7_RmEmptyDirSucceeds ==
    [][\A c \in Slots :
         (RemovingDir(c) /\ Children(fs, calls[c].abs) = {})
            => (last'.outcome = OkOutcome /\ ~Exists(fs', calls[c].abs))]_vars

\* the descriptors of a fulfilled ls
Listing(outcome) == outcome.value.content[1].text[2]

\* C8: a fulfilled ls holds one descriptor for every name fs.readdir
\* returned, in that order; a step of ls in which every awaited stat fails
\* ends the call rejected, and ls goes on or is fulfilled only by a stat that
\* succeeded.
C8_LsAllOrNothing ==
    [][last'.op = "ls" =>
        /\ \A c \in Slots : (Resumed(c) /\ calls[c].pc = "ls")
             => /\ (\E i \in Awaited(calls[c]) :
                        RaisedAtStat(fs, calls[c], i) # ""
                          /\ \A j \in Awaited(calls[c]) : j = i)
                      => last'.outcome.state = "rejected"
                /\ last'.outcome.state # "rejected"
                      => \E i \in Awaited(calls[c]) :
                           /\ RaisedAtStat(fs, calls[c], i) = ""
                           /\ calls'[c] # Idle
                                => calls'[c].stats =
                                     [calls[c].stats EXCEPT ![i] =
                                        statEntry(fs, PathJoin(calls[c].abs,
                                            calls[c].entries[i])).entry]
        /\ last'.outcome.state = "fulfilled"
             => /\ Len(Listing(last'.outcome)) = Len(last'.entries)
                /\ \A i \in DOMAIN last'.entries :
                     /\ Listing(last'.outcome)[i].name = last'.entries[i]
                     /\ Listing(last'.outcome)[i].type \in {"file", "dir", "other"}]_vars

\* C8's witness: ls was rejected with ENOENT by the stat of a name that
\* fs.readdir had returned
C8_Witness ==
    /\ last.op = "ls"
    /\ last.entries # <<>>
    /\ last.outcome = RejectionOf("ENOENT")

\* this step is a writeFile of a confined path whose parent directory exists
WriteStep ==
    /\ last'.op = "writeFile"
    /\ Confined(AbsOf(last'.args.path))
    /\ IsDir(fs, Dirname(AbsOf(last'.args.path)))

\* the content C9 says the file has after this step: with append the prior
\* content (empty if there was no file), then the decoded bytes of data
WrittenContent ==
    LET abs == AbsOf(last'.args.path) IN
    (IF Arg(last'.args, "append", FALSE) /\ IsFile(fs, abs)
     THEN fs[abs].content ELSE <<>>)
        \o BufferFrom(Arg(last'.args, "data", <<>>),
                      Arg(last'.args, "encoding", "utf8"))

\* C9 as claimed: after writeFile of a confined path whose parent directory
\* exists the file holds the content of the rule.
C9_WriteContent ==
    [][WriteStep
        => /\ IsFile(fs', AbsOf(last'.args.path))
           /\ fs'[AbsOf(last'.args.path)].content = WrittenContent]_vars

\* C9 as amended: the same for a path that is not an existing directory; the
\* call returns 'ok'.
C9_WriteContentOfFile ==
    [][(WriteStep /\ ~IsDir(fs, AbsOf(last'.args.path)))
        => /\ last'.outcome = OkOutcome
           /\ IsFile(fs', AbsOf(last'.args.path))
           /\ fs'[AbsOf(last'.args.path)].content = WrittenContent]_vars

\* C9's witness: writeFile with append=true returned 'ok' and f holds "aa"
C9_Witness ==
    /\ last.op = "writeFile"
    /\ last.args = [path |-> RelF, data |-> DataA, encoding |-> "utf8",
                    append |-> TRUE]
    /\ last.outcome = OkOutcome
    /\ fs[AbsOf(RelF)].content = <<97, 97>>

\* this step is a rename with both paths confined
RenameStep ==
    /\ last'.op = "rename"
    /\ Confined(AbsOf(last'.args.from))
    /\ Confined(AbsOf(last'.args.to))

\* from is gone, to holds what from held, and the listing of to's parent
\* shows the new name and not the old one
RenameMoved(from, to) ==
    /\ last'.outcome = OkOutcome
    /\ ~Exists(fs', from)
    /\ Exists(fs', to)
    /\ fs'[to] = fs[from]
    /\ \A q \in Descendants(fs, from) :
         /\ ~Exists(fs', q)
         /\ Exists(fs', Rebase(q, from, to))
         /\ fs'[Rebase(q, from, to)] = fs[q]
    /\ Basename(to) \in FsReaddir(fs', Dirname(to)).value
    /\ Dirname(from) = Dirname(to)
         => Basename(from) \notin FsReaddir(fs', Dirname(to)).value

RenameTargetFree(f, from, to) ==
    /\ to # from
    /\ ~IsUnder(to, from)
    /\ IsDir(f, Dirname(to))
    /\ \/ ~Exists(f, to)
       \/ ~IsDir(f, from) /\ ~IsDir(f, to)
       \/ IsDir(f, from) /\ IsDir(f, to) /\ Children(f, to) = {}

====
